---------------------------- MODULE Spec2Model ----------------------------
(***************************************************************************)
(* A model of the MGF reader of mzdata (src/src/io/mgf.rs): the line-driven *)
(* decoder, the index builder and the random-access operations, over a     *)
(* byte stream.  A stream is a sequence of one-character strings; a stream *)
(* position is a byte offset into it.                                      *)
(***************************************************************************)
EXTENDS Integers, Sequences, FiniteSets, TLC

VARIABLES
    data,      \* the bytes of the underlying file (never written)
    pos,       \* handle: the logical stream position of the BufReader
    state,     \* MGFReader.state
    error,     \* MGFReader.error
    index,     \* MGFReader.index: the entries, in insertion order
    init,      \* MGFReader.index.init
    aborted,   \* the process has panicked
    op,        \* the last operation called on the reader
    arg,       \* its argument
    ret,       \* what it returned
    nrec,      \* the records a for loop over the reader has been given
    txn,       \* the random-access calls in progress on the stream, by thread
    components \* InstrumentConfiguration.components

vars == <<data, pos, state, error, index, init, aborted, op, arg, ret, nrec,
          txn, components>>

-----------------------------------------------------------------------------
(* Bounds of the model. *)

MaxBlocks == 2

-----------------------------------------------------------------------------
(* Characters and strings. *)

NL == "\n"

WhiteSpace == {" ", "\t", "\r", "\n"}

DigitChars == <<"0", "1", "2", "3", "4", "5", "6", "7", "8", "9">>

UpperChars == <<"A", "B", "C", "D", "E", "F", "G", "H", "I", "J", "K", "L", "M",
                "N", "O", "P", "Q", "R", "S", "T", "U", "V", "W", "X", "Y", "Z">>

LowerChars == <<"a", "b", "c", "d", "e", "f", "g", "h", "i", "j", "k", "l", "m",
                "n", "o", "p", "q", "r", "s", "t", "u", "v", "w", "x", "y", "z">>

None == [some |-> FALSE]

Some(v) == [some |-> TRUE, value |-> v]

\* char::is_numeric on the first character of a line
IsNumeric(c) == \E i \in 1..10 : DigitChars[i] = c

\* str::to_lowercase, one character
LowerChar(c) ==
    IF \E i \in 1..26 : UpperChars[i] = c
    THEN LowerChars[CHOOSE i \in 1..26 : UpperChars[i] = c]
    ELSE c

ToLowercase(s) == [i \in 1..Len(s) |-> LowerChar(s[i])]

\* str::trim
Trim(s) ==
    LET keep == {i \in 1..Len(s) : s[i] \notin WhiteSpace}
    IN  IF keep = {} THEN <<>>
        ELSE LET lo == CHOOSE i \in keep : \A j \in keep : i <= j
                 hi == CHOOSE i \in keep : \A j \in keep : j <= i
             IN  SubSeq(s, lo, hi)

\* str::contains(char)
Contains(s, c) == \E i \in 1..Len(s) : s[i] = c

\* [u8]::starts_with
StartsWith(s, prefix) ==
    /\ Len(s) >= Len(prefix)
    /\ SubSeq(s, 1, Len(prefix)) = prefix

\* str::splitn(2, c) on a string that contains c
SplitOnce(s, c) ==
    LET at == CHOOSE i \in 1..Len(s) : s[i] = c /\ \A j \in 1..(i - 1) : s[j] # c
    IN  <<SubSeq(s, 1, at - 1), SubSeq(s, at + 1, Len(s))>>

\* Regex::split with the pattern \t|\s+ : at a tab the first alternative
\* matches that one character; at any other white space the second one
\* matches the whole run of white space
RECURSIVE SeparatorEnd(_, _)
SeparatorEnd(s, i) ==
    IF i < Len(s) /\ s[i + 1] \in WhiteSpace THEN SeparatorEnd(s, i + 1) ELSE i

RECURSIVE SplitFrom(_, _, _)
SplitFrom(s, i, field) ==
    IF i > Len(s) THEN <<field>>
    ELSE IF s[i] = "\t" THEN <<field>> \o SplitFrom(s, i + 1, <<>>)
    ELSE IF s[i] \in WhiteSpace
         THEN <<field>> \o SplitFrom(s, SeparatorEnd(s, i) + 1, <<>>)
    ELSE SplitFrom(s, i + 1, Append(field, s[i]))

PeakSeparatorSplit(s) == SplitFrom(s, 1, <<>>)

\* str::split_ascii_whitespace: the non-empty fields between white space
SplitAsciiWhitespace(s) ==
    SelectSeq(SplitFrom(Trim(s), 1, <<>>), LAMBDA f : f # <<>>)

\* str::parse for the numbers of this model's alphabet, unsigned decimal
\* integers: the value, or ParseError where parse() returns Err
ParseError == -1

RECURSIVE DecimalValue(_)
DecimalValue(s) ==
    IF s = <<>> THEN 0
    ELSE 10 * DecimalValue(SubSeq(s, 1, Len(s) - 1))
         + ((CHOOSE i \in 1..10 : DigitChars[i] = s[Len(s)]) - 1)

ParseNumber(s) ==
    IF s # <<>> /\ \A i \in 1..Len(s) : IsNumeric(s[i])
    THEN DecimalValue(s)
    ELSE ParseError

\* BufRead::read_line / read_until(b'\n'): the bytes from offset p up to and
\* including the next line feed, or up to the end of the stream
RECURSIVE LineEnd(_, _)
LineEnd(d, i) ==
    IF i >= Len(d) THEN Len(d)
    ELSE IF d[i + 1] = NL THEN i + 1
    ELSE LineEnd(d, i + 1)

ReadLineAt(d, p) == SubSeq(d, p + 1, LineEnd(d, p))


-----------------------------------------------------------------------------
(* The literal lines the reader compares against. *)

BEGIN_IONS == <<"B", "E", "G", "I", "N", " ", "I", "O", "N", "S">>

END_IONS == <<"E", "N", "D", " ", "I", "O", "N", "S">>

TITLE_PREFIX == <<"T", "I", "T", "L", "E", "=">>

KEY_TITLE == <<"T", "I", "T", "L", "E">>

KEY_RTINSECONDS == <<"R", "T", "I", "N", "S", "E", "C", "O", "N", "D", "S">>

KEY_PEPMASS == <<"P", "E", "P", "M", "A", "S", "S">>

-----------------------------------------------------------------------------
(* The record model. *)

\* SpectrumDescription as new_scan fills it; annotations is the map, held as
\* the set of its <<key, value>> entries
DefaultDescription ==
    [id |-> <<>>,
     ms_level |-> 2,
     signal_continuity |-> "Centroid",
     polarity |-> "Unknown",
     precursor |-> None,
     start_time |-> 0,
     annotations |-> {}]

NewScan == [description |-> DefaultDescription, peaks |-> <<>>]

\* HashMap::insert
MapInsert(m, k, v) == {e \in m : e[1] # k} \cup {<<k, v>>}

-----------------------------------------------------------------------------
(* The decoder.  Every handler returns the fields it may write, and panic, *)
(* which says that the handler panicked (an unwrap of Err, an index out of *)
(* range) at that line.                                                    *)

\* a parse_peak_from_line without the test nparts < 2
PeakFromFieldsUnchecked(few, mz, intensity, st, err) ==
    [peak  |-> Some([mz |-> mz, intensity |-> intensity]),
     state |-> st,
     error |-> err,
     panic |-> mz = ParseError \/ few \/ intensity = ParseError]

\* parse_peak_from_line once the line is split: the unwrap of a parse that
\* failed panics, and so does parts[1] when there is one field only
PeakFromFields(few, mz, intensity, st, err) ==
    [peak  |-> Some([mz |-> mz, intensity |-> intensity]),
     state |-> IF few THEN "Error" ELSE st,
     error |-> IF few THEN "TooManyColumnsForPeakLine" ELSE err,
     panic |-> mz = ParseError \/ few \/ intensity = ParseError]

PeakFromParts(parts, st, err) ==
    PeakFromFields(Len(parts) < 2,
                   ParseNumber(parts[1]),
                   IF Len(parts) < 2 THEN ParseError ELSE ParseNumber(parts[2]),
                   st, err)

ParsePeakFromLine(line, st, err) ==
    IF IsNumeric(line[1])
    THEN PeakFromParts(PeakSeparatorSplit(line), st, err)
    ELSE [peak |-> None, state |-> st, error |-> err, panic |-> FALSE]

\* the PEPMASS arm of handle_scan_header, on the fields of the value
PepmassValue(description, parts) ==
    IF \/ Len(parts) < 2
       \/ ParseNumber(parts[1]) = ParseError
       \/ ParseNumber(parts[2]) = ParseError
       \/ (Len(parts) > 2 /\ ParseNumber(parts[3]) = ParseError)
    THEN [panic |-> TRUE, description |-> description]
    ELSE [panic |-> FALSE,
          description |-> [description EXCEPT !.precursor =
              Some([mz |-> ParseNumber(parts[1]),
                    intensity |-> ParseNumber(parts[2]),
                    charge |-> IF Len(parts) > 2
                               THEN Some(ParseNumber(parts[3]))
                               ELSE None])]]

\* a match that stores an annotation under the key as it is written
HeaderValueKeepsCase(description, key, value) ==
    IF key = KEY_TITLE
    THEN [panic |-> FALSE, description |-> [description EXCEPT !.id = value]]
    ELSE IF key = KEY_RTINSECONDS
    THEN [panic |-> ParseNumber(value) = ParseError,
          description |-> [description EXCEPT !.start_time = ParseNumber(value)]]
    ELSE IF key = KEY_PEPMASS
    THEN PepmassValue(description, SplitAsciiWhitespace(value))
    ELSE [panic |-> FALSE,
          description |-> [description EXCEPT !.annotations =
                              MapInsert(@, key, value)]]

\* the match on the key of a KEY=VALUE line in handle_scan_header
HeaderValue(description, key, value) ==
    IF key = KEY_TITLE
    THEN [panic |-> FALSE, description |-> [description EXCEPT !.id = value]]
    ELSE IF key = KEY_RTINSECONDS
    THEN [panic |-> ParseNumber(value) = ParseError,
          description |-> [description EXCEPT !.start_time = ParseNumber(value)]]
    ELSE IF key = KEY_PEPMASS
    THEN PepmassValue(description, SplitAsciiWhitespace(value))
    ELSE [panic |-> FALSE,
          description |-> [description EXCEPT !.annotations =
                              MapInsert(@, ToLowercase(key), value)]]

HeaderLine(st, err, peaks, h) ==
    [work |-> TRUE, state |-> st, error |-> err, description |-> h.description,
     peaks |-> peaks, panic |-> h.panic]

\* what handle_scan_header returns for a line that is exactly END IONS
ScanHeaderEndWork == TRUE

\* a handle_scan_header that passes over a line it cannot place
ScanHeaderLineLenient(line, st, err, description, peaks, p) ==
    IF p.panic
    THEN [work |-> FALSE, state |-> p.state, error |-> p.error,
          description |-> description, peaks |-> peaks, panic |-> TRUE]
    ELSE IF p.peak.some
    THEN [work |-> TRUE, state |-> "Peaks", error |-> p.error,
          description |-> description,
          peaks |-> Append(peaks, p.peak.value), panic |-> FALSE]
    ELSE IF line = END_IONS
    THEN [work |-> ScanHeaderEndWork, state |-> "Between", error |-> err,
          description |-> description, peaks |-> peaks, panic |-> FALSE]
    ELSE IF Contains(line, "=")
    THEN HeaderLine(st, err, peaks,
                    HeaderValue(description, SplitOnce(line, "=")[1],
                                SplitOnce(line, "=")[2]))
    ELSE [work |-> TRUE, state |-> st, error |-> err,
          description |-> description, peaks |-> peaks, panic |-> FALSE]

\* a handle_scan_header that tests for a header line first
ScanHeaderLineHeaderFirst(line, st, err, description, peaks, p) ==
    IF Contains(line, "=")
    THEN HeaderLine(st, err, peaks,
                    HeaderValue(description, SplitOnce(line, "=")[1],
                                SplitOnce(line, "=")[2]))
    ELSE IF p.panic
    THEN [work |-> FALSE, state |-> p.state, error |-> p.error,
          description |-> description, peaks |-> peaks, panic |-> TRUE]
    ELSE IF p.peak.some
    THEN [work |-> TRUE, state |-> "Peaks", error |-> p.error,
          description |-> description,
          peaks |-> Append(peaks, p.peak.value), panic |-> FALSE]
    ELSE IF line = END_IONS
    THEN [work |-> ScanHeaderEndWork, state |-> "Between", error |-> err,
          description |-> description, peaks |-> peaks, panic |-> FALSE]
    ELSE [work |-> FALSE, state |-> "Error", error |-> "MalformedHeaderLine",
          description |-> description, peaks |-> peaks, panic |-> FALSE]

\* handle_scan_header, p being what parse_peak_from_line returned
ScanHeaderLine(line, st, err, description, peaks, p) ==
    IF p.panic
    THEN [work |-> FALSE, state |-> p.state, error |-> p.error,
          description |-> description, peaks |-> peaks, panic |-> TRUE]
    ELSE IF p.peak.some
    THEN [work |-> TRUE, state |-> "Peaks", error |-> p.error,
          description |-> description,
          peaks |-> Append(peaks, p.peak.value), panic |-> FALSE]
    ELSE IF line = END_IONS
    THEN [work |-> ScanHeaderEndWork, state |-> "Between", error |-> err,
          description |-> description, peaks |-> peaks, panic |-> FALSE]
    ELSE IF Contains(line, "=")
    THEN HeaderLine(st, err, peaks,
                    HeaderValue(description, SplitOnce(line, "=")[1],
                                SplitOnce(line, "=")[2]))
    ELSE [work |-> FALSE, state |-> "Error", error |-> "MalformedHeaderLine",
          description |-> description, peaks |-> peaks, panic |-> FALSE]

HandleScanHeader(line, st, err, description, peaks) ==
    ScanHeaderLine(line, st, err, description, peaks,
                   ParsePeakFromLine(line, st, err))

\* a handle_peak that passes over a KEY=VALUE line
PeakLineHandledHeaders(line, st, err, peaks, p) ==
    IF p.panic
    THEN [work |-> FALSE, state |-> p.state, error |-> p.error,
          peaks |-> peaks, panic |-> TRUE]
    ELSE IF p.peak.some
    THEN [work |-> TRUE, state |-> p.state, error |-> p.error,
          peaks |-> Append(peaks, p.peak.value), panic |-> FALSE]
    ELSE IF line = END_IONS
    THEN [work |-> FALSE, state |-> "Between", error |-> err,
          peaks |-> peaks, panic |-> FALSE]
    ELSE IF Contains(line, "=")
    THEN [work |-> TRUE, state |-> st, error |-> err,
          peaks |-> peaks, panic |-> FALSE]
    ELSE [work |-> FALSE, state |-> "Error", error |-> "MalformedPeakLine",
          peaks |-> peaks, panic |-> FALSE]

\* handle_peak, p being what parse_peak_from_line returned
PeakLineHandled(line, st, err, peaks, p) ==
    IF p.panic
    THEN [work |-> FALSE, state |-> p.state, error |-> p.error,
          peaks |-> peaks, panic |-> TRUE]
    ELSE IF p.peak.some
    THEN [work |-> TRUE, state |-> p.state, error |-> p.error,
          peaks |-> Append(peaks, p.peak.value), panic |-> FALSE]
    ELSE IF line = END_IONS
    THEN [work |-> FALSE, state |-> "Between", error |-> err,
          peaks |-> peaks, panic |-> FALSE]
    ELSE [work |-> FALSE, state |-> "Error", error |-> "MalformedPeakLine",
          peaks |-> peaks, panic |-> FALSE]

HandlePeak(line, st, err, peaks) ==
    PeakLineHandled(line, st, err, peaks, ParsePeakFromLine(line, st, err))

\* a handle_start that enters FileHeader on a KEY=VALUE line
HandleStartFileHeader(line, st) ==
    IF Contains(line, "=") THEN [work |-> TRUE, state |-> "FileHeader"]
    ELSE IF line = BEGIN_IONS THEN [work |-> TRUE, state |-> "ScanHeaders"]
    ELSE [work |-> TRUE, state |-> st]

\* MGFReader::handle_start
HandleStart(line, st) ==
    IF Contains(line, "=") THEN [work |-> TRUE, state |-> st]
    ELSE IF line = BEGIN_IONS THEN [work |-> TRUE, state |-> "ScanHeaders"]
    ELSE [work |-> TRUE, state |-> st]

\* a handle_between that takes a KEY=VALUE line for the start of a block
HandleBetweenTakesHeaders(line, st) ==
    IF line = BEGIN_IONS \/ Contains(line, "=")
    THEN [work |-> TRUE, state |-> "ScanHeaders"]
    ELSE [work |-> TRUE, state |-> st]

\* MGFReader::handle_between
HandleBetween(line, st) ==
    IF line = BEGIN_IONS THEN [work |-> TRUE, state |-> "ScanHeaders"]
    ELSE [work |-> TRUE, state |-> st]

\* what a handler returned, as the fields read_into holds after the call
AfterStateHandler(h, err, spectrum) ==
    [work |-> h.work, state |-> h.state, error |-> err, spectrum |-> spectrum,
     panic |-> FALSE]

AfterScanHeader(h) ==
    [work |-> h.work, state |-> h.state, error |-> h.error,
     spectrum |-> [description |-> h.description, peaks |-> h.peaks],
     panic |-> h.panic]

AfterPeak(h, spectrum) ==
    [work |-> h.work, state |-> h.state, error |-> h.error,
     spectrum |-> [description |-> spectrum.description, peaks |-> h.peaks],
     panic |-> h.panic]

\* One line of read_into's loop, dispatched on the decoder's state
HandleLine(line, st, err, spectrum) ==
    IF st = "Start"
    THEN AfterStateHandler(HandleStart(line, st), err, spectrum)
    ELSE IF st = "Between"
    THEN AfterStateHandler(HandleBetween(line, st), err, spectrum)
    ELSE IF st = "ScanHeaders"
    THEN AfterScanHeader(HandleScanHeader(line, st, err, spectrum.description,
                                          spectrum.peaks))
    ELSE IF st = "Peaks"
    THEN AfterPeak(HandlePeak(line, st, err, spectrum.peaks), spectrum)
    ELSE [work |-> TRUE, state |-> st, error |-> err, spectrum |-> spectrum,
          panic |-> FALSE]

\* read_into: the loop, from stream position p with `offset` bytes consumed
RECURSIVE ReadIntoLoop(_, _, _, _, _, _)

\* the end of an iteration: the panic on the Error state, then `while work`
ReadIntoHandled(d, p, b, offset, h) ==
    IF h.panic \/ h.state = "Error"
    THEN [offset |-> offset + b, pos |-> p + b, state |-> h.state,
          error |-> h.error, spectrum |-> h.spectrum, panic |-> TRUE]
    ELSE IF h.work
    THEN ReadIntoLoop(d, p + b, h.state, h.error, h.spectrum, offset + b)
    ELSE [offset |-> offset + b, pos |-> p + b, state |-> h.state,
          error |-> h.error, spectrum |-> h.spectrum, panic |-> FALSE]

\* an iteration that leaves the decoder's state alone when read_line read
\* nothing
ReadIntoLineKeepsState(d, p, st, err, spectrum, offset, buffer) ==
    IF Len(buffer) = 0
    THEN [offset |-> offset, pos |-> p, state |-> st, error |-> err,
          spectrum |-> spectrum, panic |-> FALSE]
    ELSE IF Len(Trim(buffer)) = 0
    THEN ReadIntoLoop(d, p + Len(buffer), st, err, spectrum, offset + Len(buffer))
    ELSE ReadIntoHandled(d, p, Len(buffer), offset,
                         HandleLine(Trim(buffer), st, err, spectrum))

\* an iteration, buffer being what read_line read
ReadIntoLine(d, p, st, err, spectrum, offset, buffer) ==
    IF Len(buffer) = 0
    THEN [offset |-> offset, pos |-> p, state |-> "Done", error |-> err,
          spectrum |-> spectrum, panic |-> FALSE]
    ELSE IF Len(Trim(buffer)) = 0
    THEN ReadIntoLoop(d, p + Len(buffer), st, err, spectrum, offset + Len(buffer))
    ELSE ReadIntoHandled(d, p, Len(buffer), offset,
                         HandleLine(Trim(buffer), st, err, spectrum))

ReadIntoLoop(d, p, st, err, spectrum, offset) ==
    ReadIntoLine(d, p, st, err, spectrum, offset, ReadLineAt(d, p))

ReadInto(d, p, st, err, spectrum) == ReadIntoLoop(d, p, st, err, spectrum, 0)

\* read_next with the test `offset >= 0`, which holds of every byte count
YieldsRecordAlways(offset) == offset >= 0

\* read_next's test on the byte count read_into returned
YieldsRecord(offset) == offset > 0

\* a read_next that hands out the record whatever read_into consumed
ReadNextResultIgnoresOffset(r) ==
    [ret   |-> IF ~r.panic THEN Some(r.spectrum) ELSE None,
     pos   |-> r.pos,
     state |-> r.state,
     error |-> r.error,
     panic |-> r.panic]

\* read_next, r being what read_into did
ReadNextResult(r) ==
    [ret   |-> IF ~r.panic /\ YieldsRecord(r.offset) THEN Some(r.spectrum) ELSE None,
     pos   |-> r.pos,
     state |-> r.state,
     error |-> r.error,
     panic |-> r.panic]

ReadNext(d, p, st, err) == ReadNextResult(ReadInto(d, p, st, err, NewScan))

-----------------------------------------------------------------------------
(* The offset index: the entries [id, offset] in insertion order. *)

IndexInsert(idx, id, offset) ==
    IF \E i \in 1..Len(idx) : idx[i].id = id
    THEN [i \in 1..Len(idx) |->
            IF idx[i].id = id THEN [id |-> id, offset |-> offset] ELSE idx[i]]
    ELSE Append(idx, [id |-> id, offset |-> offset])

IndexGet(idx, id) ==
    IF \E i \in 1..Len(idx) : idx[i].id = id
    THEN Some((CHOOSE e \in {idx[i] : i \in 1..Len(idx)} : e.id = id).offset)
    ELSE None

\* 0-based
IndexGetIndex(idx, i) ==
    IF i < Len(idx) THEN Some(idx[i + 1]) ELSE None

-----------------------------------------------------------------------------
(* The index builder. *)

\* build_index taking the offset after `offset += b`, the end of the line
StartOfBlockAfterLine(offset, b) == offset + b

\* the offset build_index keeps for a line that starts with BEGIN IONS, read
\* at `offset` and `b` bytes long
StartOfBlock(offset, b) == offset

RECURSIVE BuildIndexLoop(_, _, _, _, _)

\* an iteration of build_index's loop, buffer being what read_until read
BuildIndexLine(d, offset, last_start, found_start, idx, buffer) ==
    IF Len(buffer) = 0 THEN [index |-> idx, offset |-> offset]
    ELSE IF StartsWith(buffer, BEGIN_IONS)
    THEN BuildIndexLoop(d, offset + Len(buffer),
                        StartOfBlock(offset, Len(buffer)), TRUE, idx)
    ELSE IF found_start /\ StartsWith(buffer, TITLE_PREFIX)
    THEN BuildIndexLoop(d, offset + Len(buffer), 0, FALSE,
                        IndexInsert(idx, SubSeq(buffer, 7, Len(buffer)), last_start))
    ELSE BuildIndexLoop(d, offset + Len(buffer), last_start, found_start, idx)

BuildIndexLoop(d, offset, last_start, found_start, idx) ==
    BuildIndexLine(d, offset, last_start, found_start, idx, ReadLineAt(d, offset))

\* a scan or a random read that does not seek back
RestorePositionSkipped(start, after) == after

\* the seek back to the position saved before a scan or a random read, which
\* left the stream at `after`
RestorePosition(start, after) == start

-----------------------------------------------------------------------------
(* The input files: up to MaxBlocks blocks BEGIN IONS .. END IONS, each with *)
(* or without a TITLE= line, a peak line and a blank line after it.        *)

TitleNames == {"A", "B"}

BlockShapes == [title : TitleNames \cup {""}, peak : BOOLEAN, blank : BOOLEAN]

\* the peak line of the k-th block: one separated by a space, by a tab or by
\* a run of spaces
PeakLine(k) ==
    IF k % 3 = 1 THEN <<"1", " ", "2">>
    ELSE IF k % 3 = 2 THEN <<"3", "\t", "4">>
    ELSE <<"5", " ", " ", "6">>

BlockBytes(shape, k) ==
    BEGIN_IONS \o <<NL>>
    \o (IF shape.title = "" THEN <<>> ELSE TITLE_PREFIX \o <<shape.title, NL>>)
    \o (IF shape.peak THEN PeakLine(k) \o <<NL>> ELSE <<>>)
    \o END_IONS \o <<NL>>
    \o (IF shape.blank THEN <<NL>> ELSE <<>>)

RECURSIVE FileBytes(_, _)
FileBytes(shapes, k) ==
    IF k > Len(shapes) THEN <<>>
    ELSE BlockBytes(shapes[k], k) \o FileBytes(shapes, k + 1)

\* titles are told apart only by being equal or not, so the first title of
\* a file is always A
FirstTitleIsA(shapes) ==
    \A k \in 1..Len(shapes) :
        shapes[k].title = "B" => \E j \in 1..(k - 1) : shapes[j].title = "A"

Files ==
    {FileBytes(shapes, 1) :
        shapes \in {sh \in UNION {[1..n -> BlockShapes] : n \in 0..MaxBlocks} :
                        FirstTitleIsA(sh)}}

\* the identifiers asked for: the titles as a TITLE= line carries them up to
\* the end of the line, and a title as the decoder reports it
QueryIds == {<<t, NL>> : t \in TitleNames} \cup {<<"A">>}

QueryPositions == 0..MaxBlocks

-----------------------------------------------------------------------------
(* The reader. *)

\* MGFReader::new
New(file) ==
    /\ data = file
    /\ pos = 0
    /\ state = "Start"
    /\ error = "NoError"
    /\ index = <<>>
    /\ init = FALSE
    /\ op = "new"

\* MGFReader::new_indexed: new, then build_index
NewIndexed(file) ==
    /\ data = file
    /\ state = "Start"
    /\ error = "NoError"
    /\ \E r \in {BuildIndexLoop(file, 0, 0, FALSE, <<>>)} :
           /\ index = r.index
           /\ pos = RestorePosition(0, r.offset)
    /\ init = TRUE
    /\ op = "new_indexed"

\* the threads that may call into a stream
Threads == {"t1", "t2"}

\* no call in progress; exclusive says whether a call holds the stream for
\* itself from its first statement to its return, as a &mut self call on
\* one reader does
NoCalls(exclusive) ==
    [exclusive |-> exclusive,
     holder |-> "none",
     pc |-> [t \in Threads |-> "idle"],
     start |-> [t \in Threads |-> 0],
     offset |-> [t \in Threads |-> 0],
     before |-> 0]

Init ==
    /\ \E file \in Files : New(file) \/ NewIndexed(file)
    /\ aborted = FALSE
    /\ arg = None
    /\ ret = None
    /\ nrec = 0
    /\ components = <<>>
    /\ txn = NoCalls(TRUE)

\* read_next, called on the reader
ReadNextCall ==
    /\ ~aborted
    /\ \E r \in {ReadNext(data, pos, state, error)} :
           /\ pos' = r.pos
           /\ state' = r.state
           /\ error' = r.error
           /\ aborted' = r.panic
           /\ ret' = r.ret
    /\ op' = "next"
    /\ arg' = None
    /\ UNCHANGED <<components, data, index, init, txn>>

\* a sequential read that enters the record it decoded in the index
NextMaintainingIndex ==
    /\ ~aborted
    /\ \E start \in {pos}, r \in {ReadNext(data, pos, state, error)} :
           /\ pos' = r.pos
           /\ state' = r.state
           /\ error' = r.error
           /\ aborted' = r.panic
           /\ ret' = r.ret
           /\ index' = IF r.ret.some
                       THEN IndexInsert(index, r.ret.value.description.id, start)
                       ELSE index
    /\ op' = "next"
    /\ arg' = None
    /\ UNCHANGED <<components, data, init, nrec, txn>>

\* Iterator::next
Next_ == ReadNextCall /\ UNCHANGED nrec

\* Iterator::next in a for loop over the reader, which counts what it is given
CountedNext == ReadNextCall /\ nrec' = IF ret'.some THEN nrec + 1 ELSE nrec

\* a random read: save the position, seek to offset, read_next, seek back
RandomRead(offset) ==
    \E start \in {pos}, r \in {ReadNext(data, offset, state, error)} :
        /\ pos' = IF r.panic THEN r.pos ELSE RestorePosition(start, r.pos)
        /\ state' = r.state
        /\ error' = r.error
        /\ aborted' = r.panic
        /\ ret' = r.ret

GetSpectrumById(id) ==
    /\ ~aborted
    /\ \E offset_ref \in {IndexGet(index, id)} :
           IF offset_ref.some
           THEN RandomRead(offset_ref.value)
           ELSE /\ aborted' = TRUE
                /\ ret' = None
                /\ UNCHANGED <<pos, state, error>>
    /\ op' = "get_spectrum_by_id"
    /\ arg' = Some(id)
    /\ UNCHANGED <<components, data, index, init, nrec, txn>>

GetSpectrumByIndex(i) ==
    /\ ~aborted
    /\ \E entry \in {IndexGetIndex(index, i)} :
           IF entry.some
           THEN RandomRead(entry.value.offset)
           ELSE /\ ret' = None
                /\ UNCHANGED <<pos, state, error, aborted>>
    /\ op' = "get_spectrum_by_index"
    /\ arg' = Some(i)
    /\ UNCHANGED <<components, data, index, init, nrec, txn>>

\* a scan that appends the entries it finds to the entries the index holds
BuildIndexAppending ==
    /\ ~aborted
    /\ \E start \in {pos}, r \in {BuildIndexLoop(data, 0, 0, FALSE, <<>>)} :
           /\ index' = index \o r.index
           /\ pos' = RestorePosition(start, r.offset)
           /\ ret' = Some(r.offset)
    /\ init' = TRUE
    /\ op' = "build_index"
    /\ arg' = None
    /\ UNCHANGED <<components, data, state, error, aborted, nrec, txn>>

\* a scan that marks the index initialized only when it found an entry
BuildIndexInitIfFound ==
    /\ ~aborted
    /\ \E start \in {pos}, r \in {BuildIndexLoop(data, 0, 0, FALSE, index)} :
           /\ index' = r.index
           /\ pos' = RestorePosition(start, r.offset)
           /\ ret' = Some(r.offset)
           /\ init' = (r.index # <<>>)
    /\ op' = "build_index"
    /\ arg' = None
    /\ UNCHANGED <<components, data, state, error, aborted, nrec, txn>>

\* MGFReader::build_index
BuildIndex ==
    /\ ~aborted
    /\ \E start \in {pos}, r \in {BuildIndexLoop(data, 0, 0, FALSE, index)} :
           /\ index' = r.index
           /\ pos' = RestorePosition(start, r.offset)
           /\ ret' = Some(r.offset)
    /\ init' = TRUE
    /\ op' = "build_index"
    /\ arg' = None
    /\ UNCHANGED <<components, data, state, error, aborted, nrec, txn>>

\* a reset that also restarts the decoder
ResetRestartsDecoder ==
    /\ ~aborted
    /\ pos' = 0
    /\ state' = "Start"
    /\ error' = "NoError"
    /\ op' = "reset"
    /\ arg' = None
    /\ ret' = None
    /\ UNCHANGED <<components, data, index, init, aborted, nrec, txn>>

\* ScanSource::reset
Reset ==
    /\ ~aborted
    /\ pos' = 0
    /\ op' = "reset"
    /\ arg' = None
    /\ ret' = None
    /\ UNCHANGED <<components, data, state, error, index, init, aborted, nrec, txn>>

\* ScanSource::_offset_of_id and _offset_of_index: the offset the index
\* holds for an identifier, for a position
OffsetOfId(idx, id) == IndexGet(idx, id)

OffsetOfIndex(idx, i) ==
    IF IndexGetIndex(idx, i).some
    THEN Some(IndexGetIndex(idx, i).value.offset)
    ELSE None

\* Result::Ok(self) and Result::Err(ScanAccessError::ScanNotFound)
Ok == [some |-> TRUE, value |-> "Ok"]

ScanNotFound == [some |-> FALSE, err |-> "ScanNotFound"]

\* a seek that goes to byte 0 when the offset is not resolved
StartFromRewindsOnMiss(offset) ==
    /\ ~aborted
    /\ IF offset.some
       THEN pos' = offset.value /\ ret' = Ok
       ELSE pos' = 0 /\ ret' = ScanNotFound
    /\ UNCHANGED <<components, data, state, error, index, init, aborted, nrec, txn>>

\* the match of start_from_id and start_from_index on the resolved offset
StartFrom(offset) ==
    /\ ~aborted
    /\ IF offset.some
       THEN pos' = offset.value /\ ret' = Ok
       ELSE pos' = pos /\ ret' = ScanNotFound
    /\ UNCHANGED <<components, data, state, error, index, init, aborted, nrec, txn>>

StartFromId(id) ==
    /\ StartFrom(OffsetOfId(index, id))
    /\ op' = "start_from_id"
    /\ arg' = Some(id)

StartFromIndex(i) ==
    /\ StartFrom(OffsetOfIndex(index, i))
    /\ op' = "start_from_index"
    /\ arg' = Some(i)

\* reads, random reads, scans and resets, in any order
Next ==
    \/ Next_
    \/ \E id \in QueryIds : GetSpectrumById(id)
    \/ \E i \in QueryPositions : GetSpectrumByIndex(i)
    \/ BuildIndex
    \/ Reset

Spec == Init /\ [][Next]_vars

\* sequential reads, seeks and resets, in any order, on a newly made reader
NextSeek ==
    \/ Next_
    \/ \E id \in QueryIds : StartFromId(id)
    \/ \E i \in QueryPositions : StartFromIndex(i)
    \/ Reset

SpecSeek == Init /\ [][NextSeek]_vars

\* every operation that reads through the index or reads on, in any order,
\* on a newly made reader
NextAccess ==
    \/ Next_
    \/ \E id \in QueryIds : GetSpectrumById(id)
    \/ \E i \in QueryPositions : GetSpectrumByIndex(i)
    \/ \E id \in QueryIds : StartFromId(id)
    \/ \E i \in QueryPositions : StartFromIndex(i)
    \/ Reset

SpecAccess == Init /\ [][NextAccess]_vars

\* one for loop over a newly made reader
NextSeq == CountedNext

SpecSeq == Init /\ [][NextSeq]_vars

\* sequential reads and random reads, in any order, on a newly made reader
NextRandomAccess ==
    \/ Next_
    \/ \E id \in QueryIds : GetSpectrumById(id)
    \/ \E i \in QueryPositions : GetSpectrumByIndex(i)

SpecRandomAccess == Init /\ [][NextRandomAccess]_vars

-----------------------------------------------------------------------------
(* The index builder on longer files: build_index called at any point of a *)
(* sequential iteration.                                                   *)

MaxIndexedBlocks == 3

IndexedFiles ==
    {FileBytes(shapes, 1) :
        shapes \in {sh \in UNION {[1..n -> BlockShapes] : n \in 0..MaxIndexedBlocks} :
                        FirstTitleIsA(sh)}}

InitIndexing ==
    /\ \E file \in IndexedFiles : New(file)
    /\ aborted = FALSE
    /\ arg = None
    /\ ret = None
    /\ nrec = 0
    /\ components = <<>>
    /\ txn = NoCalls(TRUE)

NextIndexing ==
    \/ BuildIndex
    \/ Next_

SpecIndexing == InitIndexing /\ [][NextIndexing]_vars

\* build_index called again, at any point of a sequential iteration, on a
\* reader that new_indexed made
InitRebuild ==
    /\ \E file \in IndexedFiles : NewIndexed(file)
    /\ aborted = FALSE
    /\ arg = None
    /\ ret = None
    /\ nrec = 0
    /\ components = <<>>
    /\ txn = NoCalls(TRUE)

NextRebuild ==
    \/ BuildIndex
    \/ Next_

SpecRebuild == InitRebuild /\ [][NextRebuild]_vars

-----------------------------------------------------------------------------
(* Faults: files with a malformed line in a block, and a read_line that    *)
(* returns Err.                                                            *)

Faults == {"none", "header", "peak", "columns"}

FaultyShapes == [peak : BOOLEAN, blank : BOOLEAN, fault : Faults]

\* a line that is no header, no peak and no delimiter
MalformedLine == <<"X">>

\* a peak line of one column
OneColumnLine == <<"7">>

FaultyBlockBytes(shape, k) ==
    BEGIN_IONS \o <<NL>>
    \o (IF shape.fault = "header" THEN MalformedLine \o <<NL>> ELSE <<>>)
    \o (IF shape.peak THEN PeakLine(k) \o <<NL>> ELSE <<>>)
    \o (IF shape.fault = "columns" THEN OneColumnLine \o <<NL>> ELSE <<>>)
    \o (IF shape.fault = "peak" THEN MalformedLine \o <<NL>> ELSE <<>>)
    \o END_IONS \o <<NL>>
    \o (IF shape.blank THEN <<NL>> ELSE <<>>)

RECURSIVE FaultyFileBytes(_, _)
FaultyFileBytes(shapes, k) ==
    IF k > Len(shapes) THEN <<>>
    ELSE FaultyBlockBytes(shapes[k], k) \o FaultyFileBytes(shapes, k + 1)

FaultyFiles ==
    {FaultyFileBytes(shapes, 1) :
        shapes \in UNION {[1..n -> FaultyShapes] : n \in 0..MaxBlocks}}

\* read_next when the first read_line of read_into returns Err: the bytes of
\* the line are consumed or not, by the kind of the error
ReadNextIOError ==
    /\ ~aborted
    /\ \E after \in {pos, LineEnd(data, pos)} : pos' = after
    /\ state' = "Error"
    /\ error' = "IOError"
    /\ ret' = None
    /\ op' = "next"
    /\ arg' = None
    /\ UNCHANGED <<components, data, index, init, aborted, nrec, txn>>

InitFaults ==
    /\ \E file \in FaultyFiles : New(file)
    /\ aborted = FALSE
    /\ arg = None
    /\ ret = None
    /\ nrec = 0
    /\ components = <<>>
    /\ txn = NoCalls(TRUE)

NextFaults ==
    \/ Next_
    \/ ReadNextIOError

SpecFaults == InitFaults /\ [][NextFaults]_vars

-----------------------------------------------------------------------------
(* The decoder line by line: a step is one iteration of read_into's loop,  *)
(* over files made of up to MaxLines lines of every kind, after BEGIN IONS *)
(* or not.  ret holds the record under construction and the loop's `work`. *)

MaxLines == 3

DecoderLines ==
    {BEGIN_IONS, END_IONS,
     TITLE_PREFIX \o <<"A">>,
     <<"K", "=", "1">>, <<"k", "=", "2">>, <<"1", "=", "2">>,
     <<"1", " ", "2">>, <<"7">>, <<"X">>,
     <<>>,
     KEY_RTINSECONDS \o <<"=", "5">>,
     KEY_PEPMASS \o <<"=", "1", " ", "2">>}

RECURSIVE LinesBytes(_, _)
LinesBytes(lines, k) ==
    IF k > Len(lines) THEN <<>>
    ELSE lines[k] \o <<NL>> \o LinesBytes(lines, k + 1)

LineFiles ==
    {LinesBytes(prefix \o lines, 1) :
        prefix \in {<<>>, <<BEGIN_IONS>>},
        lines \in UNION {[1..n -> DecoderLines] : n \in 0..MaxLines}}

\* what an iteration of read_into's loop leaves, h being what the handler
\* of the state returned
IterationHandled(p, b, h) ==
    [pos |-> p + b, state |-> h.state, error |-> h.error,
     spectrum |-> h.spectrum, work |-> h.work,
     panic |-> h.panic \/ h.state = "Error"]

\* one iteration of read_into's loop, buffer being what read_line read
ReadIntoIteration(p, st, err, spectrum, buffer) ==
    IF Len(buffer) = 0
    THEN [pos |-> p, state |-> "Done", error |-> err, spectrum |-> spectrum,
          work |-> FALSE, panic |-> FALSE]
    ELSE IF Len(Trim(buffer)) = 0
    THEN [pos |-> p + Len(buffer), state |-> st, error |-> err,
          spectrum |-> spectrum, work |-> TRUE, panic |-> FALSE]
    ELSE IterationHandled(p, Len(buffer),
                          HandleLine(Trim(buffer), st, err, spectrum))

\* the record read_into fills: the one of the call in progress, or the new
\* scan of a call that begins
SpectrumInProgress == IF ret.some /\ ret.work THEN ret.value ELSE NewScan

ReadsLine ==
    /\ ~aborted
    /\ \E r \in {ReadIntoIteration(pos, state, error, SpectrumInProgress,
                                   ReadLineAt(data, pos))} :
           /\ pos' = r.pos
           /\ state' = r.state
           /\ error' = r.error
           /\ aborted' = r.panic
           /\ ret' = [some |-> TRUE, value |-> r.spectrum, work |-> r.work]
    /\ op' = "line"
    /\ arg' = Some(Trim(ReadLineAt(data, pos)))
    /\ UNCHANGED <<components, data, index, init, nrec, txn>>

InitLines ==
    /\ \E file \in LineFiles : New(file)
    /\ aborted = FALSE
    /\ arg = None
    /\ ret = None
    /\ nrec = 0
    /\ components = <<>>
    /\ txn = NoCalls(TRUE)

NextLines == ReadsLine

SpecLines == InitLines /\ [][NextLines]_vars

-----------------------------------------------------------------------------
(* A for loop over a new reader that is never left: next() is called again *)
(* and again, and nothing else is, over the files of blocks and the files  *)
(* of up to MaxLines lines of any kind.  Here nrec counts the calls of the *)
(* loop modulo 2, so that a call that changes nothing in the reader is     *)
(* still a step.                                                           *)

InitIteration ==
    /\ \E file \in Files \cup LineFiles : New(file)
    /\ aborted = FALSE
    /\ arg = None
    /\ ret = None
    /\ nrec = 0
    /\ components = <<>>
    /\ txn = NoCalls(TRUE)

\* one more call of Iterator::next by the loop
CalledAgain == ReadNextCall /\ nrec' = (nrec + 1) % 2

NextIteration == CalledAgain

\* the part of CalledAgain that says that a call was made
Calls == ~aborted /\ nrec' = (nrec + 1) % 2

\* the loop goes on calling as long as no call panicked: this is
\* WF_vars(NextIteration), every step of which changes nrec
SpecIteration ==
    /\ InitIteration
    /\ [][NextIteration]_vars
    /\ WF_nrec(Calls)

-----------------------------------------------------------------------------
(* The index builder line by line: a step is one iteration of build_index's *)
(* loop, called on a new reader, over files of up to MaxScanLines lines.   *)
(* ret holds the locals last_start and found_start.                        *)

MaxScanLines == 4

ScanLines ==
    {BEGIN_IONS, END_IONS, TITLE_PREFIX \o <<"A">>, TITLE_PREFIX \o <<"B">>,
     PeakLine(1)}

ScanFiles ==
    {LinesBytes(lines, 1) :
        lines \in UNION {[1..n -> ScanLines] : n \in 0..MaxScanLines}}

\* an iteration that leaves found_start set after a TITLE= line
BuildIndexIterationKeepsFound(offset, last_start, found_start, idx, buffer) ==
    IF StartsWith(buffer, BEGIN_IONS)
    THEN [offset |-> offset + Len(buffer),
          last_start |-> StartOfBlock(offset, Len(buffer)),
          found_start |-> TRUE, index |-> idx]
    ELSE IF found_start /\ StartsWith(buffer, TITLE_PREFIX)
    THEN [offset |-> offset + Len(buffer), last_start |-> last_start,
          found_start |-> TRUE,
          index |-> IndexInsert(idx, SubSeq(buffer, 7, Len(buffer)), last_start)]
    ELSE [offset |-> offset + Len(buffer), last_start |-> last_start,
          found_start |-> found_start, index |-> idx]

\* one iteration of build_index's loop, buffer being what read_until read
BuildIndexIteration(offset, last_start, found_start, idx, buffer) ==
    IF StartsWith(buffer, BEGIN_IONS)
    THEN [offset |-> offset + Len(buffer),
          last_start |-> StartOfBlock(offset, Len(buffer)),
          found_start |-> TRUE, index |-> idx]
    ELSE IF found_start /\ StartsWith(buffer, TITLE_PREFIX)
    THEN [offset |-> offset + Len(buffer), last_start |-> 0,
          found_start |-> FALSE,
          index |-> IndexInsert(idx, SubSeq(buffer, 7, Len(buffer)), last_start)]
    ELSE [offset |-> offset + Len(buffer), last_start |-> last_start,
          found_start |-> found_start, index |-> idx]

\* the locals of build_index before its loop
ScanBegins == [some |-> TRUE, last_start |-> 0, found_start |-> FALSE]

ScansLine ==
    /\ ~aborted
    /\ ~init
    /\ pos < Len(data)
    /\ \E r \in {BuildIndexIteration(pos, ret.last_start, ret.found_start,
                                     index, ReadLineAt(data, pos))} :
           /\ pos' = r.offset
           /\ index' = r.index
           /\ ret' = [some |-> TRUE, last_start |-> r.last_start,
                      found_start |-> r.found_start]
    /\ op' = "scan_line"
    /\ arg' = Some(ReadLineAt(data, pos))
    /\ UNCHANGED <<components, data, state, error, init, aborted, nrec, txn>>

\* the end of the loop: the seek back to the start, index.init = true
FinishesScan ==
    /\ ~aborted
    /\ ~init
    /\ pos = Len(data)
    /\ pos' = RestorePosition(0, pos)
    /\ init' = TRUE
    /\ ret' = Some(pos)
    /\ op' = "build_index"
    /\ arg' = None
    /\ UNCHANGED <<components, data, state, error, index, aborted, nrec, txn>>

InitScan ==
    /\ \E file \in ScanFiles : New(file)
    /\ aborted = FALSE
    /\ arg = None
    /\ ret = ScanBegins
    /\ nrec = 0
    /\ components = <<>>
    /\ txn = NoCalls(TRUE)

NextScan ==
    \/ ScansLine
    \/ FinishesScan

SpecScan == InitScan /\ [][NextScan]_vars

-----------------------------------------------------------------------------
(* The instrument configuration: push and new_component on a configuration *)
(* that starts empty.  No reader is involved; its variables stay as new    *)
(* leaves them.                                                            *)

MaxComponents == 257

\* `n as u8`
AsU8(n) == n % 256

\* Component::default(); params stays the empty list in every call modelled
DefaultComponent == [component_type |-> "Unknown", order |-> 0, params |-> <<>>]

\* the components handed to push: the order they come with is any
PushedComponents ==
    {[DefaultComponent EXCEPT !.order = o] : o \in {0, 9}}

\* the types handed to new_component
NewComponentTypes == {"Unknown"}

\* what push leaves in components
Pushed(cs, value) == Append(cs, [value EXCEPT !.order = AsU8(Len(cs))])

\* InstrumentConfiguration::push
Push(value) ==
    /\ Len(components) < MaxComponents
    /\ components' = Pushed(components, value)
    /\ op' = "push"
    /\ arg' = Some(value)
    /\ ret' = None
    /\ UNCHANGED <<data, pos, state, error, index, init, aborted, nrec, txn>>

\* InstrumentConfiguration::new_component
NewComponent(component_type) ==
    /\ Len(components) < MaxComponents
    /\ \E cs \in {Pushed(components,
                         [DefaultComponent EXCEPT !.component_type = component_type])} :
           /\ components' = cs
           /\ ret' = Some(cs[Len(cs)])
    /\ op' = "new_component"
    /\ arg' = Some(component_type)
    /\ UNCHANGED <<data, pos, state, error, index, init, aborted, nrec, txn>>

InitInstrument ==
    /\ New(<<>>)
    /\ aborted = FALSE
    /\ arg = None
    /\ ret = None
    /\ nrec = 0
    /\ txn = NoCalls(TRUE)
    /\ components = <<>>

NextInstrument ==
    \/ \E value \in PushedComponents : Push(value)
    \/ \E component_type \in NewComponentTypes : NewComponent(component_type)

SpecInstrument == InitInstrument /\ [][NextInstrument]_vars

-----------------------------------------------------------------------------
(* Random-access calls from two threads on one stream: each thread runs    *)
(* the statements of get_spectrum_by_id / get_spectrum_by_index in order,  *)
(* on a reader of its own over the stream they share, whose position is    *)
(* pos.  A step is one statement.                                          *)

\* a call that enters whether or not another one holds the stream
MayEnterAlways(t) == TRUE

\* whether thread t may enter a call: an exclusive call waits for the one
\* that holds the stream to return
MayEnter(t) == txn.exclusive => txn.holder = "none"

\* the call and the lookup of the offset, here of the k-th entry
LooksUpOffset(t, k) ==
    /\ ~aborted
    /\ txn.pc[t] = "idle"
    /\ MayEnter(t)
    /\ txn' = [txn EXCEPT !.pc[t] = "called",
                          !.offset[t] = index[k].offset,
                          !.holder = IF txn.exclusive THEN t ELSE @]
    /\ UNCHANGED <<components, data, pos, state, error, index, init, aborted, op, arg, ret,
                   nrec>>

\* let start = self.handle.stream_position()
SavesPosition(t) ==
    /\ ~aborted
    /\ txn.pc[t] = "called"
    /\ txn' = [txn EXCEPT !.pc[t] = "saved", !.start[t] = pos]
    /\ UNCHANGED <<components, data, pos, state, error, index, init, aborted, op, arg, ret,
                   nrec>>

\* self.seek(SeekFrom::Start(offset))
SeeksToOffset(t) ==
    /\ ~aborted
    /\ txn.pc[t] = "saved"
    /\ pos' = txn.offset[t]
    /\ txn' = [txn EXCEPT !.pc[t] = "sought"]
    /\ UNCHANGED <<components, data, state, error, index, init, aborted, op, arg, ret, nrec>>

\* let result = self.read_next(), by the thread's reader, which is in Start
Decodes(t) ==
    /\ ~aborted
    /\ txn.pc[t] = "sought"
    /\ \E r \in {ReadNext(data, pos, "Start", "NoError")} :
           /\ pos' = r.pos
           /\ aborted' = r.panic
    /\ txn' = [txn EXCEPT !.pc[t] = "decoded"]
    /\ UNCHANGED <<components, data, state, error, index, init, op, arg, ret, nrec>>

\* self.seek(SeekFrom::Start(start)), and the return
RestoresPosition(t) ==
    /\ ~aborted
    /\ txn.pc[t] = "decoded"
    /\ pos' = RestorePosition(txn.start[t], pos)
    /\ txn' = [txn EXCEPT !.pc[t] = "returned",
                          !.holder = IF @ = t THEN "none" ELSE @]
    /\ UNCHANGED <<components, data, state, error, index, init, aborted, op, arg, ret, nrec>>

\* an indexed stream at its beginning, and the calls exclusive or not
InitShared ==
    /\ \E file \in Files : NewIndexed(file)
    /\ aborted = FALSE
    /\ arg = None
    /\ ret = None
    /\ nrec = 0
    /\ components = <<>>
    /\ \E exclusive \in BOOLEAN : txn = NoCalls(exclusive)

NextShared ==
    \E t \in Threads :
        \/ \E k \in 1..Len(index) : LooksUpOffset(t, k)
        \/ SavesPosition(t)
        \/ SeeksToOffset(t)
        \/ Decodes(t)
        \/ RestoresPosition(t)

SpecShared == InitShared /\ [][NextShared]_vars

-----------------------------------------------------------------------------
(* What the properties below read off the input and the reader.            *)

\* the offsets at which the lines of d start, in order
RECURSIVE LineStartsFrom(_, _)
LineStartsFrom(d, p) ==
    IF p >= Len(d) THEN <<>>
    ELSE <<p>> \o LineStartsFrom(d, p + Len(ReadLineAt(d, p)))

LineStarts(d) == LineStartsFrom(d, 0)

TextAt(d, p) == Trim(ReadLineAt(d, p))

BeginOffsets(d) ==
    SelectSeq(LineStarts(d), LAMBDA p : TextAt(d, p) = BEGIN_IONS)

\* the number of END IONS lines that close a BEGIN IONS line
RECURSIVE MatchedFrom(_, _, _, _)
MatchedFrom(d, starts, k, open) ==
    IF k > Len(starts) THEN 0
    ELSE IF TextAt(d, starts[k]) = BEGIN_IONS THEN MatchedFrom(d, starts, k + 1, TRUE)
    ELSE IF TextAt(d, starts[k]) = END_IONS /\ open
         THEN 1 + MatchedFrom(d, starts, k + 1, FALSE)
    ELSE MatchedFrom(d, starts, k + 1, open)

MatchedPairs(d) == MatchedFrom(d, LineStarts(d), 1, FALSE)

\* the offsets of the lines of the block whose BEGIN IONS line is at b: the
\* lines after it, up to its END IONS line
RECURSIVE BodyFrom(_, _)
BodyFrom(d, p) ==
    IF p >= Len(d) \/ TextAt(d, p) = END_IONS THEN <<>>
    ELSE <<p>> \o BodyFrom(d, p + Len(ReadLineAt(d, p)))

BlockBody(d, b) == BodyFrom(d, b + Len(ReadLineAt(d, b)))

\* the offset after the END IONS line of the block that begins at b
RECURSIVE BlockEndFrom(_, _)
BlockEndFrom(d, p) ==
    IF p >= Len(d) THEN Len(d)
    ELSE IF TextAt(d, p) = END_IONS THEN p + Len(ReadLineAt(d, p))
    ELSE BlockEndFrom(d, p + Len(ReadLineAt(d, p)))

BlockEnd(d, b) == BlockEndFrom(d, b)

\* the values of the TITLE= lines of the block at b, and its peak lines
BlockTitles(d, b) ==
    LET lines == SelectSeq(BlockBody(d, b),
                           LAMBDA p : StartsWith(TextAt(d, p), TITLE_PREFIX))
    IN  [k \in 1..Len(lines) |->
            SubSeq(TextAt(d, lines[k]), 7, Len(TextAt(d, lines[k])))]

BlockPeakLines(d, b) ==
    SelectSeq(BlockBody(d, b), LAMBDA p : IsNumeric(TextAt(d, p)[1]))

\* the first line at or after p that is not blank, or Len(d)
RECURSIVE SkipBlank(_, _)
SkipBlank(d, p) ==
    IF p >= Len(d) THEN Len(d)
    ELSE IF TextAt(d, p) = <<>> THEN SkipBlank(d, p + Len(ReadLineAt(d, p)))
    ELSE p

SeqToSet(q) == {q[k] : k \in 1..Len(q)}

\* the reads of a sequential iteration from position p in decoder state st,
\* up to the first call that returns nothing: what each read consumed and
\* the record it returned
RECURSIVE SequentialReads(_, _, _, _)
SequentialReadsAfter(d, p, r) ==
    IF r.panic \/ ~r.ret.some THEN <<>>
    ELSE <<[from |-> p, to |-> r.pos, rec |-> r.ret.value]>>
         \o SequentialReads(d, r.pos, r.state, r.error)

SequentialReads(d, p, st, err) ==
    SequentialReadsAfter(d, p, ReadNext(d, p, st, err))

RemainingRecords(d, p, st, err) ==
    LET reads == SequentialReads(d, p, st, err)
    IN  [k \in 1..Len(reads) |-> reads[k].rec]

\* the record that a sequential iteration over the whole file, by a new
\* reader, returns from the read that consumes offset o
SequentialRecordAt(d, o) ==
    LET reads == SequentialReads(d, 0, "Start", "NoError")
    IN  {reads[k].rec : k \in {j \in 1..Len(reads) :
                                reads[j].from <= o /\ o < reads[j].to}}

IsRandomRead == op \in {"get_spectrum_by_id", "get_spectrum_by_index"}

\* the offset the last random read resolved, if it resolved one
ResolvedOffset ==
    IF op = "get_spectrum_by_id" THEN IndexGet(index, arg.value)
    ELSE IF op = "get_spectrum_by_index"
         THEN IF IndexGetIndex(index, arg.value).some
              THEN Some(IndexGetIndex(index, arg.value).value.offset)
              ELSE None
    ELSE None

IsSeek == op \in {"start_from_id", "start_from_index"}

\* the offset the last seek resolved, if it resolved one
SoughtOffset ==
    IF op = "start_from_id" THEN OffsetOfId(index, arg.value)
    ELSE IF op = "start_from_index" THEN OffsetOfIndex(index, arg.value)
    ELSE None

\* the records that a sequential iteration over the whole file, by a new
\* reader, returns from the read that consumes offset o on
SequentialRecordsFrom(d, o) ==
    LET reads == SelectSeq(SequentialReads(d, 0, "Start", "NoError"),
                           LAMBDA r : o < r.to)
    IN  [k \in 1..Len(reads) |-> reads[k].rec]

-----------------------------------------------------------------------------
(* The claims. *)

\* C1: when a for loop over a newly made reader has ended (next() returned
\* nothing), the number of records it was given equals the number of
\* matched BEGIN IONS / END IONS pairs of the input.
C1_RecordCountIsBlockCount ==
    (op = "next" /\ ~ret.some /\ ~aborted) => nrec = MatchedPairs(data)

\* C2: once the index is built, a random read that resolves an offset
\* returns the very record that a sequential iteration over the same file
\* returns for the block at that offset, whatever was called before.
C2_RandomReadEqualsSequentialRead ==
    (init /\ IsRandomRead /\ ~aborted /\ ResolvedOffset.some)
        => /\ ret.some
           /\ SequentialRecordAt(data, ResolvedOffset.value) = {ret.value}

\* C3: a get_spectrum_by_id or get_spectrum_by_index call that returns
\* leaves the stream position where it was before the call.
C3_RandomReadKeepsPosition ==
    [][(IsRandomRead' /\ ~aborted') => pos' = pos]_vars

\* C3 witness: a random read returned a record read from another offset
\* than the one the stream is at, in the middle of the file.
C3_Witness ==
    /\ IsRandomRead /\ ~aborted /\ ret.some
    /\ ResolvedOffset.value # pos
    /\ 0 < pos /\ pos < Len(data)

\* C4: a random read that returns does not change the records that the
\* sequential reads after it yield.
C4_RandomReadInvisibleToIteration ==
    [][(IsRandomRead' /\ ~aborted')
          => RemainingRecords(data, pos', state', error')
               = RemainingRecords(data, pos, state, error)]_vars

\* C5: a random read that resolves an offset returns the record of the
\* block that begins at that offset, with that block's identifier and
\* peaks, whatever state the decoder was left in.  Stated for the blocks
\* that hold a TITLE= line and a peak line.
C5_RandomReadDecodesItsBlock ==
    (IsRandomRead /\ ~aborted /\ ResolvedOffset.some)
        => LET b == ResolvedOffset.value
           IN  (Len(BlockTitles(data, b)) = 1 /\ Len(BlockPeakLines(data, b)) > 0)
                   => /\ ret.some
                      /\ ret.value.description.id = BlockTitles(data, b)[1]
                      /\ Len(ret.value.peaks) = Len(BlockPeakLines(data, b))

\* C6: a lookup that finds nothing, by identifier or by position, returns
\* to the caller: the call does not end the process, it returns no record,
\* and it leaves the stream position, the decoder state and the index as
\* they were.
C6_LookupMissIsRecoverable ==
    [][(IsRandomRead' /\ ~ResolvedOffset'.some)
          => /\ ~aborted' /\ ~ret'.some
             /\ pos' = pos /\ state' = state /\ error' = error
             /\ index' = index /\ init' = init]_vars

\* the blocks of d each hold one TITLE= line, with pairwise distinct values
TitledOnce(titles) ==
    /\ \A k \in 1..Len(titles) : Len(titles[k]) = 1
    /\ \A j, k \in 1..Len(titles) : j # k => titles[j] # titles[k]

TitlesOfBlocks(d, begins) == [k \in 1..Len(begins) |-> BlockTitles(d, begins[k])]

EveryBlockTitledOnce(d) == TitledOnce(TitlesOfBlocks(d, BeginOffsets(d)))

IndexHoldsOffsets(idx, begins) ==
    /\ Len(idx) = Len(begins)
    /\ \A k \in 1..Len(idx) : idx[k].offset = begins[k]

\* C7: on a file whose blocks each hold one TITLE= line, with pairwise
\* distinct values, the built index has one entry per block and position k
\* holds the offset of the k-th BEGIN IONS line, whatever is called later.
C7_IndexPositionsAreBlockOffsets ==
    (init /\ EveryBlockTitledOnce(data))
        => IndexHoldsOffsets(index, BeginOffsets(data))

\* C7 witness: a file of two titled blocks, indexed, and a record read
\* through the index afterwards.
C7_Witness ==
    /\ init /\ EveryBlockTitledOnce(data) /\ Len(BeginOffsets(data)) = 2
    /\ Len(index) = 2 /\ index[2].offset > 0
    /\ IsRandomRead /\ ret.some

\* C8: once the index is built, its offsets increase strictly with the
\* position, on any input.
C8_IndexOffsetsIncrease ==
    init => \A i, j \in 1..Len(index) : i < j => index[i].offset < index[j].offset

\* C9: on a zero-byte input read by a reader made with new_indexed, no
\* record is yielded, no fault is recorded, the process goes on, and the
\* index is initialized and empty.
C9_EmptyInput ==
    data = <<>>
        => /\ op = "new_indexed" => init
           /\ init => /\ index = <<>>
                       /\ nrec = 0 /\ ~ret.some
                       /\ error = "NoError" /\ ~aborted

\* C9 witness: next() was called on the reader new_indexed made of a
\* zero-byte input.
C9_Witness == data = <<>> /\ init /\ op = "next" /\ state = "Done"

\* a block with no peak line begins at p
EmptyBlockAt(d, p) ==
    /\ p < Len(d)
    /\ TextAt(d, p) = BEGIN_IONS
    /\ Len(BlockPeakLines(d, p)) = 0

\* C10: a read that starts at a block with no peak line returns a record
\* with no peaks and the default description fields, and consumes no line
\* of a later block.
C10_EmptyBlockYieldsOwnRecord ==
    [][(op' = "next" /\ EmptyBlockAt(data, SkipBlank(data, pos)))
          => /\ ret'.some
             /\ ret'.value.peaks = <<>>
             /\ ret'.value.description.ms_level = 2
             /\ ret'.value.description.signal_continuity = "Centroid"
             /\ ret'.value.description.polarity = "Unknown"
             /\ \A b \in SeqToSet(BeginOffsets(data)) :
                    ~(BlockEnd(data, SkipBlank(data, pos)) <= b /\ b < pos')]_vars

\* C11: a start_from_id or start_from_index call that succeeds leaves the
\* stream at the resolved offset and the decoder as it was, and the
\* sequential reads after it yield the record at that offset and then the
\* records after it, as a new reader's iteration over the file yields them,
\* whatever state the decoder was left in.
C11_SeekThenIterate ==
    [][(IsSeek' /\ ret'.some)
          => /\ pos' = SoughtOffset'.value
             /\ state' = state /\ error' = error
             /\ RemainingRecords(data, pos', state', error')
                  = SequentialRecordsFrom(data, pos')]_vars

\* the last call was a seek for an identifier the index does not hold, or
\* for a position at or past its length
SeekMisses ==
    \/ op = "start_from_id" /\ \A k \in 1..Len(index) : index[k].id # arg.value
    \/ op = "start_from_index" /\ arg.value >= Len(index)

\* C12: start_from_id with an identifier absent from the index and
\* start_from_index with a position >= len return ScanNotFound and leave
\* the stream position, the decoder state and the index unchanged.
C12_SeekMissIsScanNotFound ==
    [][SeekMisses'
          => /\ ret' = ScanNotFound /\ ~aborted'
             /\ pos' = pos /\ state' = state /\ error' = error
             /\ index' = index /\ init' = init]_vars

\* C12 witness: a seek by position missed on an index that holds entries,
\* with the stream in the middle of the file.
C12_Witness ==
    /\ SeekMisses /\ op = "start_from_index" /\ ret = ScanNotFound
    /\ Len(index) > 0 /\ 0 < pos /\ pos < Len(data)

\* C13: reset() sets the stream position to byte 0 and leaves the decoder's
\* state field, its error field and the index unchanged.
C13_ResetOnlySeeks ==
    [][op' = "reset"
          => /\ pos' = 0
             /\ state' = state /\ error' = error
             /\ index' = index /\ init' = init]_vars

\* C13 witness: reset() was called in the middle of an indexed file, or at
\* its end, on a decoder that had left Start.
C13_Witness ==
    /\ op = "reset" /\ pos = 0 /\ ~aborted
    /\ state \in {"Between", "Done"} /\ Len(index) > 0

\* C14: a newly created reader has an empty, uninitialized index, and no
\* sequential read, get_spectrum_by_id, get_spectrum_by_index,
\* start_from_id, start_from_index or reset changes the entries of the
\* index, their order or the initialized flag: only build_index does.
C14_IndexChangedOnlyByBuildIndex ==
    /\ [](op = "new" => (index = <<>> /\ ~init))
    /\ [][op' # "build_index" => (index' = index /\ init' = init)]_vars

\* C14 witness: a reader made by new has decoded a titled record, and its
\* index is still empty and uninitialized.
C14_Witness ==
    /\ ~init /\ index = <<>>
    /\ op = "next" /\ ret.some /\ ret.value.description.id # <<>>

\* every block of d that holds a TITLE= line has its entry in idx
TitledBlocksIndexed(d, idx) ==
    \A b \in SeqToSet(BeginOffsets(d)) :
        Len(BlockTitles(d, b)) > 0
            => \E k \in 1..Len(idx) : idx[k].id = BlockTitles(d, b)[1] \o <<NL>>

\* C15: build_index, called with the stream at any position and the
\* decoder in any state, scans the whole stream from byte 0 (it returns
\* the length of the stream and enters every titled block), leaves the
\* stream position and the decoder state as they were before the call, and
\* marks the index initialized whether or not it found an entry.
C15_BuildIndexRestoresAndInitializes ==
    [][op' = "build_index"
          => /\ ret' = Some(Len(data))
             /\ TitledBlocksIndexed(data, index')
             /\ pos' = pos /\ state' = state /\ error' = error
             /\ init' /\ ~aborted']_vars

\* C15 witness: build_index was called in the middle of a file with no
\* TITLE= line, after a read, and left an empty, initialized index.
C15_Witness ==
    /\ op = "build_index" /\ ret = Some(Len(data))
    /\ 0 < pos /\ pos < Len(data) /\ state = "Between"
    /\ index = <<>> /\ init

AllReturned == \A t \in Threads : txn.pc[t] = "returned"

\* C16: once two random-access calls on one stream have both returned, the
\* stream is at the position it had before either began whenever each call
\* held the stream for itself; calls that do not are covered by the
\* witness, a reachable state in which the position is another one.
C16_ExclusiveCallsRestoreCursor ==
    (AllReturned /\ txn.exclusive) => pos = txn.before

\* C16 witness: two calls that did not hold the stream for themselves have
\* both returned, and the stream is not where it was before they began.
C16_Witness ==
    AllReturned /\ ~txn.exclusive /\ ~aborted /\ pos # txn.before

\* C17: a read in which the decoder enters Error, by a malformed peak
\* line, a malformed header line, a peak line of one column or a read_line
\* that fails, returns no record, and no read after it on that reader
\* returns one.
C17_ErrorStateIsFatal ==
    [][(state = "Error" \/ state' = "Error") => ~ret'.some]_vars

\* the index that one build_index leaves in a reader that new made
FreshIndex(d) == BuildIndexLoop(d, 0, 0, FALSE, <<>>).index

\* C18: a build_index on a reader whose index is built already leaves the
\* index with exactly the entries, in the same positions and with the same
\* offsets, that a single build_index on a new reader produces.
C18_RebuildReplacesIndex ==
    [][op' = "build_index" => (index' = FreshIndex(data) /\ init')]_vars

\* C18 witness: build_index was run again in the middle of a file of three
\* titled blocks, two of them with the same title.
C18_Witness ==
    /\ op = "build_index" /\ 0 < pos /\ pos < Len(data)
    /\ Len(BeginOffsets(data)) = 3 /\ Len(index) = 2
    /\ \A b \in SeqToSet(BeginOffsets(data)) : Len(BlockTitles(data, b)) = 1

\* the BEGIN IONS lines of d at offsets from p up to q
BeginsWithin(d, p, q) == {b \in SeqToSet(BeginOffsets(d)) : p <= b /\ b < q}

\* C19: one call of read_next consumes at most one block: the lines it
\* reads hold at most one BEGIN IONS line, and it reads no line after the
\* END IONS line of the block it entered.
C19_OneBlockPerDecode ==
    [][op' = "next"
          => /\ Cardinality(BeginsWithin(data, pos, pos')) <= 1
             /\ \A b \in BeginsWithin(data, pos, pos') :
                    pos' <= BlockEnd(data, b)]_vars

\* what read_into returns to a read_next called in this state
ReadIntoHere == ReadInto(data, pos, state, error, NewScan)

\* C20: read_into returns zero bytes consumed, with no fault, exactly when
\* the stream is at its end when the call begins; the decoder is then Done
\* and read_next returns no record; and the decoder enters Done in no step
\* but a read that reached the end of the stream.
C20_ZeroBytesIffEndOfStream ==
    [][/\ op' = "next"
            => /\ (ReadIntoHere.offset = 0 /\ ~ReadIntoHere.panic)
                    <=> pos = Len(data)
               /\ pos = Len(data)
                    => (state' = "Done" /\ ~ret'.some /\ pos' = pos)
       /\ (state' = "Done" /\ state # "Done")
            => (op' = "next" /\ pos' = Len(data))]_vars

\* C20 witness: a read called at the end of a file that holds blocks
\* returned no record and left the decoder Done.
C20_Witness ==
    /\ op = "next" /\ ~ret.some /\ ~aborted
    /\ state = "Done" /\ pos = Len(data) /\ Len(BeginOffsets(data)) > 0

\* the last step handled a line that is not blank, in decoder state st
HandlesLineIn(st) == op' = "line" /\ arg'.value # <<>> /\ state = st

\* C21: in ScanHeaders a line whose first character is a digit is handled
\* as a peak line and as nothing else: it changes no description field, so
\* a KEY=VALUE line whose key begins with a digit stores no annotation,
\* and it either appends one peak and moves to Peaks or ends the process;
\* a step that moves to Between or changes the description handled a line
\* whose first character is not a digit.
C21_PeakTestComesFirst ==
    [][HandlesLineIn("ScanHeaders")
          => /\ IsNumeric(arg'.value[1])
                  => /\ ret'.value.description = SpectrumInProgress.description
                     /\ \/ aborted'
                        \/ /\ state' = "Peaks"
                           /\ Len(ret'.value.peaks)
                                = Len(SpectrumInProgress.peaks) + 1
             /\ (\/ state' = "Between"
                 \/ ret'.value.description # SpectrumInProgress.description)
                  => ~IsNumeric(arg'.value[1])]_vars

\* C21 witness: the line 1=2 was handled in a block's headers and left no
\* annotation.
C21_Witness ==
    /\ op = "line" /\ arg.value = <<"1", "=", "2">>
    /\ ret.value.description.annotations = {}
    /\ ret.value.peaks = <<>> /\ aborted

\* C22: in ScanHeaders a line that is not blank, is no peak line, is not
\* END IONS and holds no '=' puts the decoder in Error with the fault
\* MalformedHeaderLine, appends no peak and changes no description field.
C22_MalformedHeaderLine ==
    [][(/\ HandlesLineIn("ScanHeaders")
        /\ ~IsNumeric(arg'.value[1])
        /\ arg'.value # END_IONS
        /\ ~Contains(arg'.value, "="))
          => /\ state' = "Error"
             /\ error' = "MalformedHeaderLine"
             /\ ret'.value = SpectrumInProgress]_vars

\* C22 witness: a second BEGIN IONS line was handled inside a block.
C22_Witness ==
    /\ op = "line" /\ arg.value = BEGIN_IONS
    /\ state = "Error" /\ error = "MalformedHeaderLine"

\* C23: in Peaks a peak line is appended and the state stays Peaks (or the
\* process ends on a field that is no number); END IONS moves to Between
\* and ends the call; any other line, a KEY=VALUE line included, puts the
\* decoder in Error with the fault MalformedPeakLine.
C23_PeaksStateLines ==
    [][HandlesLineIn("Peaks")
          => IF IsNumeric(arg'.value[1])
             THEN \/ aborted'
                  \/ /\ state' = "Peaks" /\ ret'.work
                     /\ Len(ret'.value.peaks) = Len(SpectrumInProgress.peaks) + 1
             ELSE IF arg'.value = END_IONS
             THEN /\ state' = "Between" /\ ~ret'.work /\ ~aborted'
                  /\ ret'.value = SpectrumInProgress
             ELSE /\ state' = "Error" /\ error' = "MalformedPeakLine"
                  /\ ret'.value = SpectrumInProgress]_vars

\* C23 witness: a KEY=VALUE line was handled after the first peak of a
\* block.
C23_Witness ==
    /\ op = "line" /\ Contains(arg.value, "=") /\ ~IsNumeric(arg.value[1])
    /\ state = "Error" /\ error = "MalformedPeakLine"
    /\ Len(ret.value.peaks) = 1

\* C24: a line whose first character is a digit and which splits into
\* fewer than two fields sets the fault TooManyColumnsForPeakLine, moves
\* the decoder to Error and appends no peak.
C24_OneColumnPeakLine ==
    [][(/\ op' = "line" /\ arg'.value # <<>>
        /\ state \in {"ScanHeaders", "Peaks"}
        /\ IsNumeric(arg'.value[1])
        /\ Len(PeakSeparatorSplit(arg'.value)) < 2)
          => /\ state' = "Error"
             /\ error' = "TooManyColumnsForPeakLine"
             /\ ret'.value.peaks = SpectrumInProgress.peaks]_vars

\* C24 witness: a peak line of one column was handled after a peak of two.
C24_Witness ==
    /\ op = "line" /\ arg.value = OneColumnLine
    /\ state = "Error" /\ error = "TooManyColumnsForPeakLine"
    /\ Len(ret.value.peaks) = 1

\* C25: in Start and in Between a line that is not blank and is not
\* exactly BEGIN IONS changes neither the decoder state, nor the fault
\* kind, nor the record under construction, and raises no fault; exactly
\* BEGIN IONS moves the decoder to ScanHeaders; a blank line leaves the
\* state unchanged in every state.
C25_StartAndBetweenDiscardLines ==
    [][/\ (op' = "line" /\ arg'.value # <<>> /\ state \in {"Start", "Between"})
            => IF arg'.value = BEGIN_IONS
               THEN state' = "ScanHeaders" /\ ~aborted'
               ELSE /\ state' = state /\ error' = error /\ ~aborted'
                    /\ ret'.value = SpectrumInProgress
       /\ (op' = "line" /\ arg'.value = <<>> /\ pos < Len(data))
            => (state' = state /\ error' = error /\ ~aborted')]_vars

\* C25 witness: a KEY=VALUE line was discarded between two blocks.
C25_Witness ==
    /\ op = "line" /\ Contains(arg.value, "=")
    /\ state = "Between" /\ error = "NoError" /\ ~aborted

\* C26: the decoder's state is always one of Start, ScanHeaders, Peaks,
\* Between, Done and Error, and never FileHeader.
C26_FileHeaderUnreachable ==
    /\ state \in {"Start", "ScanHeaders", "Peaks", "Between", "Done", "Error"}
    /\ state # "FileHeader"

\* C26 witness: a KEY=VALUE line was handled before the first block, and
\* the decoder is still in Start.
C26_Witness ==
    /\ op = "line" /\ Contains(arg.value, "=") /\ ~IsNumeric(arg.value[1])
    /\ state = "Start" /\ ~aborted

\* the offset of the last line before p that begins with BEGIN IONS
MostRecentBegin(d, p) ==
    LET begins == {b \in SeqToSet(LineStarts(d)) :
                      b < p /\ StartsWith(ReadLineAt(d, b), BEGIN_IONS)}
    IN  CHOOSE b \in begins : \A c \in begins : c <= b

\* the TITLE= line at p is the first one after the last BEGIN IONS line
FirstTitleOfBlock(d, p) ==
    /\ \E b \in SeqToSet(LineStarts(d)) :
           b < p /\ StartsWith(ReadLineAt(d, b), BEGIN_IONS)
    /\ \A q \in SeqToSet(LineStarts(d)) :
           (MostRecentBegin(d, p) < q /\ q < p)
               => ~StartsWith(ReadLineAt(d, q), TITLE_PREFIX)

BlocksTitled(d, id) ==
    {b \in SeqToSet(BeginOffsets(d)) : BlockTitles(d, b) = <<id>>}

\* C28: on an indexed file whose blocks each hold one TITLE= line, with
\* pairwise distinct values, the identifier of a sequentially decoded
\* record is a key of the index and resolves to the offset of the BEGIN
\* IONS line of the block with that title, and get_spectrum_by_id called
\* with the title of a block returns the record with that identifier.
C28_IndexAndDecoderAgreeOnIds ==
    (init /\ EveryBlockTitledOnce(data))
        => /\ (op = "next" /\ ret.some /\ ret.value.description.id # <<>>)
                => /\ IndexGet(index, ret.value.description.id).some
                   /\ IndexGet(index, ret.value.description.id).value
                          \in BlocksTitled(data, ret.value.description.id)
           /\ (op = "get_spectrum_by_id" /\ BlocksTitled(data, arg.value) # {})
                => /\ ~aborted
                   /\ ret.some
                   /\ ret.value.description.id = arg.value

\* the lines of d after the BEGIN IONS line at b and before p that carry a
\* header under a key other than TITLE, RTINSECONDS and PEPMASS
AnnotationLines(d, b, p) ==
    {q \in SeqToSet(LineStarts(d)) :
        /\ b < q /\ q < p
        /\ TextAt(d, q) # <<>>
        /\ ~IsNumeric(TextAt(d, q)[1])
        /\ Contains(TextAt(d, q), "=")
        /\ SplitOnce(TextAt(d, q), "=")[1]
               \notin {KEY_TITLE, KEY_RTINSECONDS, KEY_PEPMASS}}

AnnotationKey(d, q) == ToLowercase(SplitOnce(TextAt(d, q), "=")[1])

\* the annotations of the block that begins at b, its lines up to p read:
\* for each lower-cased key the value of the last line that carries it
AnnotationsOfBlock(d, b, p) ==
    {<<AnnotationKey(d, q), SplitOnce(TextAt(d, q), "=")[2]>> :
        q \in {q \in AnnotationLines(d, b, p) :
                  \A r \in AnnotationLines(d, b, p) :
                      AnnotationKey(d, r) = AnnotationKey(d, q) => r <= q}}

\* the annotations of the record the decoder is filling
Annotations == SpectrumInProgress.description.annotations

ReadIntoReturnedOk == op' = "next" /\ ~aborted' /\ state' # "Error"

\* C30: a read_into that returns Ok leaves the decoder in Between or Done,
\* no call leaves it in ScanHeaders or Peaks, and every call begins in
\* Start, Between or Done.
C30_StateBetweenCalls ==
    [][/\ ReadIntoReturnedOk => state' \in {"Between", "Done"}
       /\ (op' = "next" /\ ~aborted') => state' \notin {"ScanHeaders", "Peaks"}
       /\ op' = "next" => state \in {"Start", "Between", "Done"}]_vars

\* C31: when next() is called again and again on a new reader and nothing
\* else is, then, unless a fault line stops the read, a next() returns no
\* record at some point and every next() after it returns no record.
C31_IterationEndsAndStaysExhausted ==
    <>[](aborted \/ (op = "next" /\ ~ret.some))

\* C31 witness: a call at the end of a file of two blocks, the second one
\* followed by a blank line, returned no record.
C31_Witness ==
    /\ op = "next" /\ ~ret.some /\ ~aborted
    /\ pos = Len(data) /\ MatchedPairs(data) = 2
    /\ TextAt(data, Len(data) - 1) = <<>>

\* C32: after any sequence of push and new_component calls on a
\* configuration that was empty, the component at every position i has
\* order i, configurations of more than 255 components included.
C32_OrderIsListPosition ==
    op \in {"push", "new_component"}
        => \A i \in 0..(Len(components) - 1) : components[i + 1].order = i

=============================================================================
